---------------------------- MODULE Spec2Model ----------------------------
(***************************************************************************)
(* A model of watchmedo.py (src/watchdog/watchmedo.py): the sub-commands   *)
(* `tricks` (tricks_from), `log` and `shell-command` (observe_with), the   *)
(* trick scheduler (schedule_tricks) and the pattern parser                *)
(* (parse_patterns).                                                       *)
(*                                                                         *)
(* The Observer class, load_class and get_parent_dir_path are imported by  *)
(* watchmedo.py from the watchdog package; they are modelled from the      *)
(* observer contract of the specification (Idle -> Running -> Stopped,     *)
(* schedule / start / unschedule / stop / join).                           *)
(*                                                                         *)
(* Strings that the code splits are sequences of one-character strings.    *)
(***************************************************************************)
EXTENDS Naturals, Integers, Sequences, FiniteSets, TLC

(***************************************************************************)
(* Bounds of the model.                                                    *)
(***************************************************************************)
\* the number of configuration files on the command line
MaxFiles == 2
\* the number of entries of a `tricks` list
MaxTricks == 3
\* the length of a pattern specification (--patterns, --ignore-patterns)
MaxSpecLen == 3

\* the longest --python-path value
MaxPathLen == 3

\* the most entries of a `tricks` list whose entries have any number of keys
MaxEntries == 2

(***************************************************************************)
(* Sequence helpers.                                                       *)
(***************************************************************************)
SeqsUpTo(S, n) == UNION {[1..k -> S] : k \in 0..n}

Range(s) == {s[k] : k \in DOMAIN s}

\* the first element of every sequence of ss that has one
RECURSIVE FlattenFirst(_)
FlattenFirst(ss) ==
    IF ss = <<>> THEN <<>>
    ELSE (IF Head(ss) = <<>> THEN <<>> ELSE <<Head(ss)[1]>>)
             \o FlattenFirst(Tail(ss))

RECURSIVE Flatten(_)
Flatten(ss) == IF ss = <<>> THEN <<>> ELSE Head(ss) \o Flatten(Tail(ss))

(***************************************************************************)
(* Constants of watchmedo.py.                                              *)
(***************************************************************************)
CONFIG_KEY_TRICKS == "tricks"

CONFIG_KEY_PYTHON_PATH == "python-path"

(***************************************************************************)
(* The handler identifiers a configuration may name.  load_class resolves  *)
(* GoodTrick, OtherTrick and BrokenTrick; the constructor of BrokenTrick   *)
(* raises; NoSuchTrick is on no search path.                               *)
(***************************************************************************)
GoodTrick == "tricks.GoodTrick"

OtherTrick == "tricks.OtherTrick"

BrokenTrick == "tricks.BrokenTrick"

NoSuchTrick == "no.such.Trick"

TrickNames == {GoodTrick, BrokenTrick, NoSuchTrick}

\* load_class(trick_name): the class, or an ImportError
load_class(trick_name) ==
    IF trick_name \in {GoodTrick, OtherTrick, BrokenTrick}
    THEN [ok |-> TRUE, cls |-> trick_name]
    ELSE [ok |-> FALSE, cls |-> trick_name]

\* TrickClass(*trick_args, **trick_kwargs): whether the constructor returns
Constructs(cls) == cls \in {GoodTrick, OtherTrick}

\* a trick, valid when it resolves and can be instantiated
ValidTrick(item) == load_class(item.name).ok /\ Constructs(item.name)

(***************************************************************************)
(* The inputs: configuration documents and command lines.                  *)
(*                                                                         *)
(* A trick item is one (handler identifier, value) pair of an entry of the *)
(* `tricks` list; an entry is the sequence of its items, in the order      *)
(* trick.items() yields them.                                              *)
(***************************************************************************)
TrickItems == [name : TrickNames, keys : {{"args", "kwargs"}}]

TrickEntries == {<<it>> : it \in TrickItems}

\* the `tricks` lists: at most MaxTricks entries, at most one invalid trick
TrickLists ==
    {ts \in SeqsUpTo(TrickEntries, MaxTricks) :
        Cardinality({k \in DOMAIN ts : ~ValidTrick(ts[k][1])}) <= 1}

\* the `python-path` list of the documents that have one: two directories,
\* each a sequence of characters
ConfigPythonPath == << <<"l", "i", "b">>, <<"s", "r", "c">> >>

\* a document with the `tricks` list ts, without a `python-path` list
TricksDocument(ts) ==
    [keys |-> {CONFIG_KEY_TRICKS}, tricks |-> ts, python_path |-> <<>>]

\* the document with the `python-path` list added
WithPythonPath(config) ==
    [config EXCEPT !.keys = @ \cup {CONFIG_KEY_PYTHON_PATH},
                   !.python_path = ConfigPythonPath]

\* the document with neither key
EmptyDocument == [keys |-> {}, tricks |-> <<>>, python_path |-> <<>>]

\* a decoded configuration document: the keys it has, its `tricks` list and
\* its `python-path` list
ConfigDocuments ==
    {TricksDocument(ts) : ts \in TrickLists}
        \cup {WithPythonPath(TricksDocument(ts)) : ts \in TrickLists}
        \cup {EmptyDocument}

\* a file on disk holding the document
FileOf(config) == [exists |-> TRUE, config |-> config]

\* what a tricks file is on disk: missing, or a document
TricksFiles ==
    {[exists |-> FALSE, config |-> EmptyDocument]}
        \cup {FileOf(c) : c \in ConfigDocuments}

\* the path of the k-th configuration file, as its components
FilePath(k) == <<"conf", k, "tricks.yaml">>

\* get_parent_dir_path(tricks_file)
get_parent_dir_path(path) == SubSeq(path, 1, Len(path) - 1)

PatternChars == {"a", ";"}

PatternSpecs == SeqsUpTo(PatternChars, MaxSpecLen)

\* line 121: --python-path, default='.', a sequence of characters
DefaultPythonPath == <<".">>

\* the command line `tricks --python-path python_path FILE...`
TricksCommand(fs, python_path) ==
    [cmd |-> "tricks", files |-> fs, python_path |-> python_path,
     patterns |-> <<>>, ignore_patterns |-> <<>>,
     directories |-> <<>>, recursive |-> FALSE]

\* a trick specification with or without `args` and `kwargs`, for a handler
\* that loads and instantiates
SchedulerItems ==
    [name : {GoodTrick, OtherTrick}, keys : SUBSET {"args", "kwargs"}]

\* an entry of a `tricks` list: a mapping of any number of handler
\* identifiers, each a key once, as the sequence trick.items() yields; a dict
\* yields two given keys in one order
SchedulerEntries ==
    {e \in SeqsUpTo(SchedulerItems, Cardinality({GoodTrick, OtherTrick})) :
        \A j, k \in DOMAIN e :
            j < k => e[j].name = GoodTrick /\ e[k].name = OtherTrick}

\* the command lines `tricks FILE`, FILE holding up to MaxEntries such entries
SchedulerArgs ==
    {TricksCommand(<<FileOf(TricksDocument(ts))>>, DefaultPythonPath) :
        ts \in SeqsUpTo(SchedulerEntries, MaxEntries)}

\* the characters of a --python-path value: a letter, os.path.sep, os.pathsep
PathChars == {"a", "/", ":"}

\* the --python-path values
PathSpecs == SeqsUpTo(PathChars, MaxPathLen)

\* a tricks file whose one trick loads and instantiates
OneTrickFile ==
    FileOf(TricksDocument(<< <<[name |-> GoodTrick, keys |-> {"args", "kwargs"}]>> >>))

\* the command lines `tricks --python-path SPEC [FILE]`
PathArgs ==
    {TricksCommand(fs, p) : fs \in {<<>>, <<OneTrickFile>>}, p \in PathSpecs}

\* the command lines: `tricks FILE...`, `log` and `shell-command`
TricksArgs ==
    {TricksCommand(fs, DefaultPythonPath) : fs \in SeqsUpTo(TricksFiles, MaxFiles)}

ObserveArgs ==
    {[cmd |-> c, files |-> <<>>, python_path |-> <<>>,
      patterns |-> p, ignore_patterns |-> ip,
      directories |-> <<".">>, recursive |-> FALSE] :
        c \in {"log", "shell-command"}, p \in PatternSpecs, ip \in PatternSpecs}

(***************************************************************************)
(* parse_patterns: str.split(';') of both specifications; an ignore        *)
(* specification that splits to [''] becomes [].                           *)
(***************************************************************************)
\* str.split(separator): the pieces between the separators, never empty
RECURSIVE Split(_, _)
Split(s, separator) ==
    IF s = <<>> THEN << <<>> >>
    ELSE LET rest == Split(Tail(s), separator)
         IN  IF Head(s) = separator
             THEN << <<>> >> \o rest
             ELSE << <<Head(s)>> \o Head(rest) >> \o Tail(rest)

NormalizeIgnoreSame(ignore_patterns) == ignore_patterns

\* lines 82-83: if ignore_patterns == ['']: ignore_patterns = []
NormalizeIgnore(ignore_patterns) ==
    IF ignore_patterns = << <<>> >> THEN <<>> ELSE ignore_patterns

PatternSeparator == ";"

parse_patterns(patterns_spec, ignore_patterns_spec) ==
    LET separator == PatternSeparator
        patterns == Split(patterns_spec, separator)
        ignore_patterns == Split(ignore_patterns_spec, separator)
    IN  <<patterns, NormalizeIgnore(ignore_patterns)>>

(***************************************************************************)
(* path_split (lines 53-56) and add_to_sys_path (lines 59-62).             *)
(***************************************************************************)
\* os.path.sep, on Unix
os_path_sep == "/"

\* os.pathsep, on Unix
os_pathsep == ":"

\* path_split(path_spec, separator=os.path.sep)
path_split(path_spec, separator) == Split(path_spec, separator)

\* paths[::-1]
RECURSIVE Reversed(_)
Reversed(s) == IF s = <<>> THEN <<>> ELSE Append(Reversed(Tail(s)), Head(s))

\* list.insert(index, x), for 0 <= index <= len(list)
ListInsert(list, index, x) ==
    SubSeq(list, 1, index) \o <<x>> \o SubSeq(list, index + 1, Len(list))

RECURSIVE InsertEach(_, _, _)
InsertEach(list, paths, index) ==
    IF paths = <<>> THEN list
    ELSE InsertEach(ListInsert(list, index, Head(paths)), Tail(paths), index)

\* the paths inserted in their listed order, so that the last comes first
add_to_sys_path_Forward(sys_path, paths, index) ==
    InsertEach(sys_path, paths, index)

\* add_to_sys_path(paths, index=0), on the list sys.path:
\* for path in paths[::-1]: sys.path.insert(index, path)
add_to_sys_path(sys_path, paths, index) ==
    InsertEach(sys_path, Reversed(paths), index)

\* sys.path when the command starts: one directory
InitialSysPath == << <<"u", "s", "r">> >>

(***************************************************************************)
(* The Observer (watchdog.Observer), from its contract: an object with a   *)
(* lifecycle state and a registration table, the sessions in the order     *)
(* they were registered.                                                   *)
(***************************************************************************)
NewObserver == [state |-> "Idle", sessions |-> <<>>]

\* schedule(identifier, handler, paths, recursive): the table is keyed by the
\* identifier, so registering under an identifier in use replaces its session
ObserverSchedule(o, identifier, handler, paths, recursive) ==
    [o EXCEPT !.sessions =
        Append(SelectSeq(@, LAMBDA s : s.id # identifier),
               [id |-> identifier, handler |-> handler,
                paths |-> paths, recursive |-> recursive])]

\* start(): Idle -> Running
ObserverStart(o) == [o EXCEPT !.state = "Running"]

\* unschedule(*identifiers): the named sessions; all of them when none is named
ObserverUnschedule(o, identifiers) ==
    [o EXCEPT !.sessions =
        IF identifiers = <<>> THEN <<>>
        ELSE SelectSeq(@, LAMBDA s : s.id \notin Range(identifiers))]

\* stop(): Running / Stopping -> Stopped; a no-op on a stopped handle
ObserverStop(o) == [o EXCEPT !.state = "Stopped"]

\* a call on handle h, as the call log keeps it: the operation, whether it
\* returned (ok) or raised, and the state and the number of sessions of the
\* handle when it was made
Call(op, h, o, ok, identifiers) ==
    [op |-> op, h |-> h, ok |-> ok, state |-> o.state, ids |-> identifiers,
     sessions |-> Len(o.sessions)]

(***************************************************************************)
(* schedule_tricks (lines 101-116).                                        *)
(***************************************************************************)
FixedIdentifier(clock) == <<"uuid1", 0>>

\* line 115: uuid.uuid1().hex, a fresh identifier at every call
unique_identifier(clock) == <<"uuid1", clock>>

\* the handler a trick class instantiates to
TrickHandler(cls, trick_args, trick_kwargs) ==
    [cls |-> cls, patterns |-> <<>>, ignore_patterns |-> <<>>,
     args |-> trick_args, kwargs |-> trick_kwargs]

\* what a trick specification holds under a key it has
Configured(key) == IF key = "args" THEN <<"arg">> ELSE {"kwarg"}

\* trick_value.get(key, default)
dict_get(trick_value, key, default) ==
    IF key \in trick_value.keys THEN Configured(key) ELSE default

check_trick_has_key_Silent(trick_name, trick, key) == <<>>

\* lines 72-74: the warnings logged, one when the key is not in the trick
check_trick_has_key(trick_name, trick, key) ==
    IF key \notin trick.keys
    THEN <<[trick |-> trick_name, key |-> key]>>
    ELSE <<>>

\* the loop body (lines 106-116) over the (trick_name, trick_value) items of
\* all entries, in order; an exception of load_class or of the constructor
\* ends the loop and leaves schedule_tricks.  st is what the loop has done so
\* far, path is sys.path, which load_class searches.
RECURSIVE ScheduleItems(_, _, _, _, _)
ScheduleItems(h, items, watch_path, path, st) ==
    IF items = <<>> THEN st
    ELSE LET trick_name == Head(items).name
             trick_value == Head(items)
             warned == check_trick_has_key(trick_name, trick_value, "kwargs")
                         \o check_trick_has_key(trick_name, trick_value, "args")
             trick_kwargs == dict_get(trick_value, "kwargs", {})
             trick_args == dict_get(trick_value, "args", <<>>)
             TrickClass == load_class(trick_name)
             st1 == [st EXCEPT
                       !.warnings = @ \o warned,
                       !.loads = Append(@, [h |-> h, name |-> trick_name,
                                            path |-> path])]
         IN  IF ~TrickClass.ok
             THEN [st1 EXCEPT !.exc = "ImportError"]
             ELSE IF ~Constructs(TrickClass.cls)
             THEN [st1 EXCEPT !.exc = "TypeError"]
             ELSE LET id == unique_identifier(st.clock + 1)
                      trick_event_handler ==
                          TrickHandler(TrickClass.cls, trick_args, trick_kwargs)
                  IN  ScheduleItems(
                          h, Tail(items), watch_path, path,
                          [st1 EXCEPT
                             !.observer = ObserverSchedule(@, id, trick_event_handler,
                                                           <<watch_path>>, TRUE),
                             !.clock = @ + 1,
                             !.calls = Append(@, Call("schedule", h, st.observer,
                                                      TRUE, <<id>>))])

\* schedule_tricks before its loop
Scheduling(o, clock) ==
    [observer |-> o, clock |-> clock, calls |-> <<>>, warnings |-> <<>>,
     loads |-> <<>>, exc |-> "none"]

\* schedule_tricks refusing a configuration with no trick
schedule_tricks_RejectEmpty(h, o, tricks, watch_path, clock, path) ==
    IF tricks = <<>>
    THEN [Scheduling(o, clock) EXCEPT !.exc = "ValueError"]
    ELSE ScheduleItems(h, Flatten(tricks), watch_path, path, Scheduling(o, clock))

schedule_tricks(h, o, tricks, watch_path, clock, path) ==
    ScheduleItems(h, Flatten(tricks), watch_path, path, Scheduling(o, clock))

(***************************************************************************)
(* The state.                                                              *)
(***************************************************************************)
VARIABLES
    args,           \* the parsed command line
    pc,             \* where the command is
    i,              \* the position of the running for loop
    heap,           \* the Observer objects created, by handle
    observer,       \* the local `observer`: a handle, 0 before the first
    observers,      \* tricks_from's list `observers`, of handles
    event_handler,  \* log / shell_command's local `event_handler`
    calls,          \* every call made on an Observer so far, in order
    exc,            \* the exception the command ended with, "none" if none
    interrupts,     \* the KeyboardInterrupts delivered so far
    clock,          \* the uuid1 clock
    sys_path,       \* sys.path
    warnings,       \* the warnings logged so far
    loads           \* every load_class call so far, with sys.path at the call

vars == <<args, pc, i, heap, observer, observers, event_handler, calls, exc,
          interrupts, clock, sys_path, warnings, loads>>

NoHandler == [cls |-> "none", patterns |-> <<>>, ignore_patterns |-> <<>>]

\* the state a command starts in
Start ==
    /\ pc = "main"
    /\ i = 0
    /\ heap = <<>>
    /\ observer = 0
    /\ observers = <<>>
    /\ event_handler = NoHandler
    /\ calls = <<>>
    /\ exc = "none"
    /\ interrupts = 0
    /\ clock = 0
    /\ sys_path = InitialSysPath
    /\ warnings = <<>>
    /\ loads = <<>>

Init ==
    /\ args \in TricksArgs \cup ObserveArgs
    /\ Start

\* the command ends with an exception
Raise(e) == pc' = "raised" /\ exc' = e

Terminated == pc \in {"returned", "raised"}

(***************************************************************************)
(* tricks_from (lines 122-153).                                            *)
(***************************************************************************)
\* the head of `for tricks_file in args.files` (line 125) at position k: the
\* loop body, or past the loop, the wait of lines 145-147
ForFiles(k) == IF k <= Len(args.files) THEN "tf_for" ELSE "tf_wait"

\* lines 123-124: add_to_sys_path(path_split(args.python_path)),
\* observers = [], then the first iteration
TricksFrom ==
    /\ pc = "main"
    /\ args.cmd = "tricks"
    /\ sys_path' = add_to_sys_path(sys_path,
                                   path_split(args.python_path, os_path_sep), 0)
    /\ observers' = <<>>
    /\ i' = 1
    /\ pc' = ForFiles(1)
    /\ UNCHANGED <<args, heap, observer, event_handler, calls, exc, interrupts,
                   clock, warnings, loads>>

\* every file watched from the directory of the first file
WatchPathOfFirst(k) == get_parent_dir_path(FilePath(1))

\* line 140: dir_path = get_parent_dir_path(tricks_file), for the k-th file
WatchPath(k) == get_parent_dir_path(FilePath(k))

\* lines 126-141, one iteration up to schedule_tricks: a new Observer, the
\* file and its `tricks` key checked, its `python-path` list put first on
\* sys.path, the tricks scheduled.  The KeyError of
\* line 134 is built from the undefined name input_file: a NameError.
TricksFrom_LoadAndSchedule ==
    /\ pc = "tf_for"
    /\ LET tricks_file == args.files[i]
           h == Len(heap) + 1
           config == tricks_file.config
           path == IF CONFIG_KEY_PYTHON_PATH \in config.keys
                   THEN add_to_sys_path(sys_path, config.python_path, 0)
                   ELSE sys_path
           dir_path == WatchPath(i)
           r == schedule_tricks(h, NewObserver, config.tricks, dir_path, clock,
                                path)
       IN  /\ observer' = h
           /\ IF ~tricks_file.exists
              THEN /\ Raise("IOError")
                   /\ heap' = Append(heap, NewObserver)
                   /\ UNCHANGED <<calls, clock, sys_path, warnings, loads>>
              ELSE IF CONFIG_KEY_TRICKS \notin config.keys
              THEN /\ Raise("NameError")
                   /\ heap' = Append(heap, NewObserver)
                   /\ UNCHANGED <<calls, clock, sys_path, warnings, loads>>
              ELSE /\ heap' = Append(heap, r.observer)
                   /\ calls' = calls \o r.calls
                   /\ clock' = r.clock
                   /\ sys_path' = path
                   /\ warnings' = warnings \o r.warnings
                   /\ loads' = loads \o r.loads
                   /\ IF r.exc # "none"
                      THEN Raise(r.exc)
                      ELSE pc' = "tf_start" /\ UNCHANGED exc
    /\ UNCHANGED <<args, i, observers, event_handler, interrupts>>

\* start() with its exception swallowed: the loop goes on to the next file
TricksFrom_StartIgnoreFailure ==
    /\ pc = "tf_start"
    /\ \E ok \in BOOLEAN :
        /\ calls' = Append(calls, Call("start", observer, heap[observer], ok, <<>>))
        /\ heap' = IF ok THEN [heap EXCEPT ![observer] = ObserverStart(@)] ELSE heap
        /\ observers' = IF ok THEN Append(observers, observer) ELSE observers
        /\ i' = i + 1
        /\ pc' = ForFiles(i + 1)
    /\ UNCHANGED <<args, observer, event_handler, exc, interrupts, clock>>
    /\ UNCHANGED <<sys_path, warnings, loads>>

\* the observer appended to `observers` before start(), whose exception is
\* swallowed: a handle that never started is shut down with the others
TricksFrom_StartAppendFirst ==
    /\ pc = "tf_start"
    /\ \E ok \in BOOLEAN :
        /\ calls' = Append(calls, Call("start", observer, heap[observer], ok, <<>>))
        /\ heap' = IF ok THEN [heap EXCEPT ![observer] = ObserverStart(@)] ELSE heap
        /\ observers' = Append(observers, observer)
        /\ i' = i + 1
        /\ pc' = ForFiles(i + 1)
    /\ UNCHANGED <<args, observer, event_handler, exc, interrupts, clock>>
    /\ UNCHANGED <<sys_path, warnings, loads>>

\* lines 142-143: observer.start(), observers.append(observer); an exception
\* of start() leaves tricks_from
TricksFrom_Start ==
    /\ pc = "tf_start"
    /\ \E ok \in BOOLEAN :
        /\ calls' = Append(calls, Call("start", observer, heap[observer], ok, <<>>))
        /\ IF ok
           THEN /\ heap' = [heap EXCEPT ![observer] = ObserverStart(@)]
                /\ observers' = Append(observers, observer)
                /\ i' = i + 1
                /\ pc' = ForFiles(i + 1)
                /\ UNCHANGED exc
           ELSE /\ Raise("ObserverError")
                /\ UNCHANGED <<heap, observers, i>>
    /\ UNCHANGED <<args, observer, event_handler, interrupts, clock>>
    /\ UNCHANGED <<sys_path, warnings, loads>>

\* the KeyboardInterrupt handler entered (line 148): the first iteration of
\* `for o in observers`, or with no observer the end of tricks_from, the join
\* loop of lines 152-153 being empty too
TricksFrom_Except ==
    /\ i' = 1
    /\ pc' = IF observers = <<>> THEN "returned" ELSE "tf_unschedule"

\* a wait that ends by itself after one sleep, into the shutdown
TricksFrom_SleepOnce ==
    /\ pc = "tf_wait"
    /\ TricksFrom_Except
    /\ UNCHANGED <<args, heap, observer, observers, event_handler, calls, exc,
                   interrupts, clock>>
    /\ UNCHANGED <<sys_path, warnings, loads>>

\* lines 146-147: while True: time.sleep(1)
TricksFrom_Sleep ==
    /\ pc = "tf_wait"
    /\ UNCHANGED vars

\* unschedule called with the identifier of the first session only
TricksFrom_UnscheduleFirst ==
    /\ pc = "tf_unschedule"
    /\ LET o == observers[i]
           ids == IF heap[o].sessions = <<>> THEN <<>>
                  ELSE <<heap[o].sessions[1].id>>
       IN  \E ok \in BOOLEAN :
            /\ calls' = Append(calls, Call("unschedule", o, heap[o], ok, ids))
            /\ IF ok
               THEN /\ heap' = [heap EXCEPT ![o] = ObserverUnschedule(@, ids)]
                    /\ pc' = "tf_stop"
                    /\ UNCHANGED exc
               ELSE /\ Raise("ObserverError")
                    /\ UNCHANGED heap
    /\ UNCHANGED <<args, i, observer, observers, event_handler, interrupts, clock>>
    /\ UNCHANGED <<sys_path, warnings, loads>>

\* line 150: o.unschedule()
TricksFrom_Unschedule ==
    /\ pc = "tf_unschedule"
    /\ LET o == observers[i]
       IN  \E ok \in BOOLEAN :
            /\ calls' = Append(calls, Call("unschedule", o, heap[o], ok, <<>>))
            /\ IF ok
               THEN /\ heap' = [heap EXCEPT ![o] = ObserverUnschedule(@, <<>>)]
                    /\ pc' = "tf_stop"
                    /\ UNCHANGED exc
               ELSE /\ Raise("ObserverError")
                    /\ UNCHANGED heap
    /\ UNCHANGED <<args, i, observer, observers, event_handler, interrupts, clock>>
    /\ UNCHANGED <<sys_path, warnings, loads>>

\* stop() with the join loop entered after the first observer already
TricksFrom_StopJoinEarly ==
    /\ pc = "tf_stop"
    /\ LET o == observers[i]
       IN  \E ok \in BOOLEAN :
            /\ calls' = Append(calls, Call("stop", o, heap[o], ok, <<>>))
            /\ IF ok
               THEN /\ heap' = [heap EXCEPT ![o] = ObserverStop(@)]
                    /\ i' = 1
                    /\ pc' = "tf_join"
                    /\ UNCHANGED exc
               ELSE /\ Raise("ObserverError")
                    /\ UNCHANGED <<heap, i>>
    /\ UNCHANGED <<args, observer, observers, event_handler, interrupts, clock>>
    /\ UNCHANGED <<sys_path, warnings, loads>>

\* line 151: o.stop(); after the last observer the join loop (line 152)
TricksFrom_Stop ==
    /\ pc = "tf_stop"
    /\ LET o == observers[i]
       IN  \E ok \in BOOLEAN :
            /\ calls' = Append(calls, Call("stop", o, heap[o], ok, <<>>))
            /\ IF ok
               THEN /\ heap' = [heap EXCEPT ![o] = ObserverStop(@)]
                    /\ IF i < Len(observers)
                       THEN i' = i + 1 /\ pc' = "tf_unschedule"
                       ELSE i' = 1 /\ pc' = "tf_join"
                    /\ UNCHANGED exc
               ELSE /\ Raise("ObserverError")
                    /\ UNCHANGED <<heap, i>>
    /\ UNCHANGED <<args, observer, observers, event_handler, interrupts, clock>>
    /\ UNCHANGED <<sys_path, warnings, loads>>

\* lines 152-153: o.join(), which returns once the observer has stopped
TricksFrom_Join ==
    /\ pc = "tf_join"
    /\ LET o == observers[i]
       IN  /\ heap[o].state = "Stopped"
           /\ \E ok \in BOOLEAN :
                /\ calls' = Append(calls, Call("join", o, heap[o], ok, <<>>))
                /\ IF ok
                   THEN /\ IF i < Len(observers)
                           THEN i' = i + 1 /\ pc' = "tf_join"
                           ELSE i' = i /\ pc' = "returned"
                        /\ UNCHANGED exc
                   ELSE /\ Raise("ObserverError")
                        /\ UNCHANGED i
    /\ UNCHANGED <<args, heap, observer, observers, event_handler, interrupts,
                   clock>>
    /\ UNCHANGED <<sys_path, warnings, loads>>

(***************************************************************************)
(* log (lines 200-221), shell_command (lines 247-259) and observe_with     *)
(* (lines 87-98).                                                          *)
(***************************************************************************)
\* the identifier log and shell_command pass to observe_with
Identifier == IF args.cmd = "log" THEN <<"logger">> ELSE <<"shell-command">>

\* lines 202-205 and 253-258: the handler, built from the parsed patterns
PatternHandler(cls, patterns_spec, ignore_patterns_spec) ==
    LET parsed == parse_patterns(patterns_spec, ignore_patterns_spec)
    IN  [cls |-> cls, patterns |-> parsed[1], ignore_patterns |-> parsed[2]]

\* log, up to its call of observe_with
Log ==
    /\ pc = "main"
    /\ args.cmd = "log"
    /\ event_handler' =
           PatternHandler("LoggerTrick", args.patterns, args.ignore_patterns)
    /\ heap' = Append(heap, NewObserver)
    /\ observer' = Len(heap) + 1
    /\ pc' = "ow_schedule"
    /\ UNCHANGED <<args, i, observers, calls, exc, interrupts, clock>>
    /\ UNCHANGED <<sys_path, warnings, loads>>

\* shell_command, up to its call of observe_with
ShellCommand ==
    /\ pc = "main"
    /\ args.cmd = "shell-command"
    /\ event_handler' =
           PatternHandler("ShellCommandTrick", args.patterns, args.ignore_patterns)
    /\ heap' = Append(heap, NewObserver)
    /\ observer' = Len(heap) + 1
    /\ pc' = "ow_schedule"
    /\ UNCHANGED <<args, i, observers, calls, exc, interrupts, clock>>
    /\ UNCHANGED <<sys_path, warnings, loads>>

\* line 90: observer.schedule(identifier, event_handler, paths, recursive)
ObserveWith_Schedule ==
    /\ pc = "ow_schedule"
    /\ calls' = Append(calls, Call("schedule", observer, heap[observer], TRUE,
                                   <<Identifier>>))
    /\ heap' = [heap EXCEPT ![observer] =
                   ObserverSchedule(@, Identifier, event_handler,
                                    args.directories, args.recursive)]
    /\ pc' = "ow_start"
    /\ UNCHANGED <<args, i, observer, observers, event_handler, exc, interrupts,
                   clock>>
    /\ UNCHANGED <<sys_path, warnings, loads>>

\* line 91: observer.start()
ObserveWith_Start ==
    /\ pc = "ow_start"
    /\ \E ok \in BOOLEAN :
        /\ calls' = Append(calls, Call("start", observer, heap[observer], ok, <<>>))
        /\ IF ok
           THEN /\ heap' = [heap EXCEPT ![observer] = ObserverStart(@)]
                /\ pc' = "ow_wait"
                /\ UNCHANGED exc
           ELSE /\ Raise("ObserverError")
                /\ UNCHANGED heap
    /\ UNCHANGED <<args, i, observer, observers, event_handler, interrupts, clock>>
    /\ UNCHANGED <<sys_path, warnings, loads>>

\* lines 93-94: while True: time.sleep(1)
ObserveWith_Sleep ==
    /\ pc = "ow_wait"
    /\ UNCHANGED vars

\* unschedule() called without the identifier, as tricks_from calls it
ObserveWith_UnscheduleAll ==
    /\ pc = "ow_unschedule"
    /\ \E ok \in BOOLEAN :
        /\ calls' = Append(calls, Call("unschedule", observer, heap[observer], ok,
                                       <<>>))
        /\ IF ok
           THEN /\ heap' = [heap EXCEPT ![observer] = ObserverUnschedule(@, <<>>)]
                /\ pc' = "ow_stop"
                /\ UNCHANGED exc
           ELSE /\ Raise("ObserverError")
                /\ UNCHANGED heap
    /\ UNCHANGED <<args, i, observer, observers, event_handler, interrupts, clock>>
    /\ UNCHANGED <<sys_path, warnings, loads>>

\* line 96: observer.unschedule(identifier)
ObserveWith_Unschedule ==
    /\ pc = "ow_unschedule"
    /\ \E ok \in BOOLEAN :
        /\ calls' = Append(calls, Call("unschedule", observer, heap[observer], ok,
                                       <<Identifier>>))
        /\ IF ok
           THEN /\ heap' = [heap EXCEPT ![observer] =
                               ObserverUnschedule(@, <<Identifier>>)]
                /\ pc' = "ow_stop"
                /\ UNCHANGED exc
           ELSE /\ Raise("ObserverError")
                /\ UNCHANGED heap
    /\ UNCHANGED <<args, i, observer, observers, event_handler, interrupts, clock>>
    /\ UNCHANGED <<sys_path, warnings, loads>>

\* line 97: observer.stop()
ObserveWith_Stop ==
    /\ pc = "ow_stop"
    /\ \E ok \in BOOLEAN :
        /\ calls' = Append(calls, Call("stop", observer, heap[observer], ok, <<>>))
        /\ IF ok
           THEN /\ heap' = [heap EXCEPT ![observer] = ObserverStop(@)]
                /\ pc' = "ow_join"
                /\ UNCHANGED exc
           ELSE /\ Raise("ObserverError")
                /\ UNCHANGED heap
    /\ UNCHANGED <<args, i, observer, observers, event_handler, interrupts, clock>>
    /\ UNCHANGED <<sys_path, warnings, loads>>

\* line 98: observer.join()
ObserveWith_Join ==
    /\ pc = "ow_join"
    /\ heap[observer].state = "Stopped"
    /\ \E ok \in BOOLEAN :
        /\ calls' = Append(calls, Call("join", observer, heap[observer], ok, <<>>))
        /\ IF ok
           THEN pc' = "returned" /\ UNCHANGED exc
           ELSE Raise("ObserverError")
    /\ UNCHANGED <<args, i, heap, observer, observers, event_handler, interrupts,
                   clock>>
    /\ UNCHANGED <<sys_path, warnings, loads>>

(***************************************************************************)
(* The KeyboardInterrupt: raised in the main thread wherever it is.  In    *)
(* the try blocks (lines 92-94, 145-147) the handler catches it; anywhere  *)
(* else it leaves the command.                                             *)
(***************************************************************************)
Interrupt ==
    /\ ~Terminated
    /\ interrupts' = interrupts + 1
    /\ IF pc = "tf_wait"
       THEN TricksFrom_Except /\ UNCHANGED exc
       ELSE IF pc = "ow_wait"
       THEN pc' = "ow_unschedule" /\ UNCHANGED <<i, exc>>
       ELSE Raise("KeyboardInterrupt") /\ UNCHANGED i
    /\ UNCHANGED <<args, heap, observer, observers, event_handler, calls, clock>>
    /\ UNCHANGED <<sys_path, warnings, loads>>

Next ==
    \/ TricksFrom
    \/ TricksFrom_LoadAndSchedule
    \/ TricksFrom_Start
    \/ TricksFrom_Sleep
    \/ TricksFrom_Unschedule
    \/ TricksFrom_Stop
    \/ TricksFrom_Join
    \/ Log
    \/ ShellCommand
    \/ ObserveWith_Schedule
    \/ ObserveWith_Start
    \/ ObserveWith_Sleep
    \/ ObserveWith_Unschedule
    \/ ObserveWith_Stop
    \/ ObserveWith_Join
    \/ Interrupt

Spec == Init /\ [][Next]_vars

\* the `tricks` command alone
TricksNext ==
    \/ TricksFrom
    \/ TricksFrom_LoadAndSchedule
    \/ TricksFrom_Start
    \/ TricksFrom_Sleep
    \/ TricksFrom_Unschedule
    \/ TricksFrom_Stop
    \/ TricksFrom_Join
    \/ Interrupt

\* the `tricks` command over every --python-path value
PathInit ==
    /\ args \in PathArgs
    /\ Start

PathSpec == PathInit /\ [][TricksNext]_vars

\* the `tricks` command over one file of entries with any number of keys
SchedulerInit ==
    /\ args \in SchedulerArgs
    /\ Start

SchedulerSpec == SchedulerInit /\ [][TricksNext]_vars

\* the steps of the command itself: every action but the interrupt, which
\* the environment may never send, and the sleeps
Step ==
    \/ TricksFrom
    \/ TricksFrom_LoadAndSchedule
    \/ TricksFrom_Start
    \/ TricksFrom_Unschedule
    \/ TricksFrom_Stop
    \/ TricksFrom_Join
    \/ Log
    \/ ShellCommand
    \/ ObserveWith_Schedule
    \/ ObserveWith_Start
    \/ ObserveWith_Unschedule
    \/ ObserveWith_Stop
    \/ ObserveWith_Join

\* the main thread keeps running: a call that is made returns or raises
FairSpec == Spec /\ WF_vars(Step)

(***************************************************************************)
(* What the claims speak of.                                               *)
(***************************************************************************)
\* the positions of the call log holding a call of `op`
CallsOf(op) == {k \in DOMAIN calls : calls[k].op = op}

\* `op` has been called on handle h, whether it returned or raised
Attempted(op, h) == \E k \in CallsOf(op) : calls[k].h = h

\* `op` has been called on handle h and has returned
Returned(op, h) == \E k \in CallsOf(op) : calls[k].h = h /\ calls[k].ok

\* the handles `op` was called on, in the order of the calls
HandlesOf(op) ==
    LET sel == SelectSeq(calls, LAMBDA c : c.op = op)
    IN  [k \in DOMAIN sel |-> sel[k].h]

\* the handles on which start() returned, in the order they were started
StartedHandles ==
    LET sel == SelectSeq(calls, LAMBDA c : c.op = "start" /\ c.ok)
    IN  [k \in DOMAIN sel |-> sel[k].h]

IsPrefix(s, t) == Len(s) <= Len(t) /\ \A k \in DOMAIN s : s[k] = t[k]

\* a shutdown call (unschedule, stop, join) has raised
ShutdownCallFailed ==
    \E k \in DOMAIN calls :
        calls[k].op \in {"unschedule", "stop", "join"} /\ ~calls[k].ok

\* file k exists and its document has the `tricks` key
Loadable(k) ==
    args.files[k].exists /\ CONFIG_KEY_TRICKS \in args.files[k].config.keys

\* the tricks of file k, in configuration order
TricksOf(k) == Flatten(args.files[k].config.tricks)

\* the pieces joined by the separator: the inverse of str.split
RECURSIVE JoinPieces(_, _)
JoinPieces(pieces, separator) ==
    IF pieces = <<>> THEN <<>>
    ELSE IF Len(pieces) = 1 THEN pieces[1]
    ELSE pieces[1] \o <<separator>> \o JoinPieces(Tail(pieces), separator)

\* `pieces` is what splitting `spec` on `separator` gives
SplitsOn(spec, pieces, separator) ==
    /\ pieces # <<>>
    /\ JoinPieces(pieces, separator) = spec
    /\ \A k \in DOMAIN pieces : separator \notin Range(pieces[k])

\* `pieces` is what splitting `spec` on ';' gives
SplitsOnSemicolon(spec, pieces) ==
    /\ pieces # <<>>
    /\ JoinPieces(pieces, ";") = spec
    /\ \A k \in DOMAIN pieces : ";" \notin Range(pieces[k])

(***************************************************************************)
(* The claims.                                                             *)
(***************************************************************************)

\* C1: when tricks_from ends with a configuration error (a missing file, a
\* document without the `tricks` key), no observer it created is Running.
C1_NoPartialStartup ==
    (args.cmd = "tricks" /\ pc = "raised" /\ exc \in {"IOError", "NameError"})
        => \A h \in DOMAIN heap : heap[h].state # "Running"

\* C2: when the interrupt-driven shutdown of tricks_from has ended because a
\* call on a handle raised, unschedule() and stop() have each been attempted
\* on every other started handle, those on which no call raised.
C2_ShutdownReachesEveryHandle ==
    (args.cmd = "tricks" /\ Terminated /\ ShutdownCallFailed)
        => \A h \in Range(observers) :
               (\A k \in DOMAIN calls : calls[k].h = h => calls[k].ok)
                   => Attempted("unschedule", h) /\ Attempted("stop", h)

\* C3: when tricks_from has ended after a single interrupt that arrived in
\* its wait loop, and no stop() or join() raised, it has returned, every
\* handle it started is Stopped and join() has returned for each of them.
C3_InterruptStopsAndJoinsAll ==
    (/\ args.cmd = "tricks"
     /\ Terminated
     /\ interrupts = 1
     /\ exc # "KeyboardInterrupt"
     /\ \A k \in CallsOf("stop") \cup CallsOf("join") : calls[k].ok)
        => /\ pc = "returned"
           /\ \A h \in Range(observers) :
                  heap[h].state = "Stopped" /\ Returned("join", h)

\* C3, the executions in which no call raises and no second interrupt
\* arrives: once the handler of tricks_from is entered, tricks_from
\* eventually returns with every started handle Stopped and joined, or
\* ends with an exception.  Holds under FairSpec.
C3_ShutdownCompletesUnlessRaised ==
    (args.cmd = "tricks" /\ pc \in {"tf_unschedule", "tf_stop", "tf_join"})
        ~> \/ pc = "raised"
           \/ /\ pc = "returned"
              /\ \A h \in Range(observers) :
                     heap[h].state = "Stopped" /\ Returned("join", h)

\* C4: an unresolvable or uninstantiable trick is skipped alone: tricks_from
\* does not end with its exception, and once schedule_tricks is over for a
\* file, one session per valid trick of that file has been registered on its
\* handle.
C4_InvalidTrickSkippedAlone ==
    args.cmd = "tricks" =>
        /\ exc \notin {"ImportError", "TypeError"}
        /\ \A h \in DOMAIN heap :
               Loadable(h) =>
                   Cardinality({k \in CallsOf("schedule") : calls[k].h = h})
                     = Cardinality({k \in DOMAIN TricksOf(h) :
                                        ValidTrick(TricksOf(h)[k])})

C6_ShutdownFailureCollected ==
    (args.cmd = "tricks" /\ ShutdownCallFailed) => pc # "raised"

\* C7: in the shutdown of tricks_from the handles are unscheduled and stopped
\* in the order they were started, each stop() comes right after the
\* unschedule() of the same handle, and every join() comes after stop() has
\* been attempted on every started handle.
C7_ShutdownOrder ==
    args.cmd = "tricks" =>
        /\ IsPrefix(HandlesOf("unschedule"), StartedHandles)
        /\ IsPrefix(HandlesOf("stop"), StartedHandles)
        /\ IsPrefix(HandlesOf("join"), StartedHandles)
        /\ \A k \in CallsOf("stop") :
               /\ k > 1
               /\ calls[k - 1].op = "unschedule"
               /\ calls[k - 1].h = calls[k].h
        /\ \A k \in CallsOf("join") :
               \A h \in Range(StartedHandles) :
                   \E j \in CallsOf("stop") : j < k /\ calls[j].h = h

\* C7 witness: two started handles, both unscheduled, stopped and joined
C7_Witness ==
    /\ args.cmd = "tricks"
    /\ pc = "returned"
    /\ Len(StartedHandles) = 2
    /\ HandlesOf("join") = StartedHandles

\* C8: tricks_from starts its handles in the order of the configuration
\* files, the k-th started handle holding the tricks of the k-th file, and a
\* start() that raises ends the run there: it is the last call made, no
\* later handle exists and the command has ended with the exception.
C8_StartOrderAndAbort ==
    args.cmd = "tricks" =>
        /\ \A k \in DOMAIN HandlesOf("start") :
               LET h == HandlesOf("start")[k]
               IN  /\ h = k
                   /\ Loadable(k)
                   /\ Cardinality({j \in CallsOf("schedule") : calls[j].h = h})
                        = Len(TricksOf(k))
                   /\ \A j \in CallsOf("schedule") :
                          calls[j].h = h =>
                              \E m \in CallsOf("start") : calls[m].h = h /\ j < m
        /\ \A k \in CallsOf("start") :
               ~calls[k].ok =>
                   /\ k = Len(calls)
                   /\ Len(heap) = calls[k].h
                   /\ pc = "raised"
                   /\ exc = "ObserverError"

\* C8 witness: start() raised on the first of two handles to start
C8_Witness ==
    /\ args.cmd = "tricks"
    /\ Len(args.files) = 2
    /\ \A k \in DOMAIN args.files : Loadable(k)
    /\ \E k \in CallsOf("start") : ~calls[k].ok /\ calls[k].h = 1

\* C9: as long as no interrupt has been delivered, neither unschedule(),
\* stop() nor join() has been called on any handle, and neither tricks_from
\* nor observe_with has returned.
C9_WaitsForInterrupt ==
    interrupts = 0 =>
        /\ CallsOf("unschedule") \cup CallsOf("stop") \cup CallsOf("join") = {}
        /\ pc # "returned"

\* C9 witness: in the wait loop with started handles and no interrupt so far
C9_Witness ==
    /\ pc \in {"tf_wait", "ow_wait"}
    /\ interrupts = 0
    /\ \E h \in DOMAIN heap : heap[h].state = "Running"

\* C10: the patterns the handler gets are the pattern specification split on
\* ';', its ignore patterns are the ignore specification split on ';', and
\* an empty ignore specification gives no ignore pattern at all.
C10_ParsePatterns ==
    (args.cmd \in {"log", "shell-command"} /\ event_handler # NoHandler) =>
        /\ SplitsOnSemicolon(args.patterns, event_handler.patterns)
        /\ IF args.ignore_patterns = <<>>
           THEN event_handler.ignore_patterns = <<>>
           ELSE SplitsOnSemicolon(args.ignore_patterns,
                                  event_handler.ignore_patterns)

\* C10 witness: two patterns and an empty ignore specification, parsed
C10_Witness ==
    /\ args.cmd = "log"
    /\ event_handler # NoHandler
    /\ args.ignore_patterns = <<>>
    /\ Len(event_handler.patterns) = 2

\* C11: for a configuration whose `tricks` list is empty, schedule_tricks
\* registers no session and raises nothing, so that only an interrupt can
\* keep tricks_from from calling start() on that handle; start() is called
\* on the Idle handle, which is then Running with an empty registration
\* table.
C11_EmptyTricksStillStarts ==
    args.cmd = "tricks" =>
        \A h \in DOMAIN heap :
            (Loadable(h) /\ args.files[h].config.tricks = <<>>) =>
                /\ \A k \in CallsOf("schedule") : calls[k].h # h
                /\ heap[h].sessions = <<>>
                /\ (pc = "raised" /\ observer = h /\ ~Attempted("start", h))
                       => exc = "KeyboardInterrupt"
                /\ \A k \in CallsOf("start") :
                       calls[k].h = h => calls[k].state = "Idle"
                /\ (Returned("start", h) /\ ~Returned("stop", h))
                       => heap[h].state = "Running"

\* C11 witness: the handle of a configuration with `tricks: []`, started
C11_Witness ==
    /\ args.cmd = "tricks"
    /\ \E h \in DOMAIN heap :
        /\ Loadable(h)
        /\ args.files[h].config.tricks = <<>>
        /\ Returned("start", h)
        /\ heap[h].state = "Running"
        /\ heap[h].sessions = <<>>

\* C14: every call observe_with and tricks_from make on a handle is made in
\* a state in which the handle's contract allows it: schedule() on an Idle or
\* Running handle, start() on an Idle handle, unschedule() on a Running or
\* Stopping handle.
C14_CallsInValidStates ==
    \A k \in DOMAIN calls :
        /\ calls[k].op = "schedule" => calls[k].state \in {"Idle", "Running"}
        /\ calls[k].op = "start" => calls[k].state = "Idle"
        /\ calls[k].op = "unschedule" => calls[k].state \in {"Running", "Stopping"}

\* C14 witness: after an interrupt, the second of two handles that were
\* scheduled and started has been unscheduled
C14_Witness ==
    /\ interrupts = 1
    /\ Returned("schedule", 2)
    /\ Returned("start", 2)
    /\ Returned("unschedule", 2)

\* C15: the calls observe_with makes are, in this order, schedule(identifier),
\* start(), and after an interrupt unschedule(identifier), stop(), join(),
\* all on its single handle, each made only when the one before returned;
\* the identifier unscheduled is the one scheduled, and join() comes after
\* stop().
C15_ObserveWithOrder ==
    args.cmd \in {"log", "shell-command"} =>
        /\ Len(heap) <= 1
        /\ IsPrefix([k \in DOMAIN calls |-> calls[k].op],
                    <<"schedule", "start", "unschedule", "stop", "join">>)
        /\ \A k \in DOMAIN calls :
               /\ calls[k].h = 1
               /\ k > 1 => calls[k - 1].ok
        /\ \A k \in CallsOf("schedule") : calls[k].ids = <<Identifier>>
        /\ \A k \in CallsOf("unschedule") :
               /\ interrupts >= 1
               /\ calls[k].ids = calls[1].ids
        /\ \A k \in CallsOf("join") :
               \E j \in CallsOf("stop") : j < k /\ calls[j].h = calls[k].h

\* C15 witness: shell-command interrupted in its wait, its handle
\* unscheduled, stopped and joined
C15_Witness ==
    /\ args.cmd = "shell-command"
    /\ pc = "returned"
    /\ Len(calls) = 5
    /\ Returned("join", 1)

\* C17: tricks_from creates one observer per configuration file, the h-th
\* for the h-th file; the sessions on the h-th observer are those of the
\* tricks of the h-th file, in order, each with the parent directory of that
\* file as its root path, and no session identifier is on two observers.
C17_OneObserverPerFile ==
    args.cmd = "tricks" =>
        /\ Len(heap) <= Len(args.files)
        /\ observers = [k \in 1..Len(observers) |-> k]
        /\ pc = "tf_wait" =>
               Len(heap) = Len(args.files) /\ Len(observers) = Len(args.files)
        /\ \A h \in DOMAIN heap :
               LET sessions == heap[h].sessions
               IN  /\ Len(sessions) <= Len(TricksOf(h))
                   /\ \A k \in DOMAIN sessions :
                        /\ sessions[k].handler.cls = TricksOf(h)[k].name
                        /\ sessions[k].paths
                             = <<get_parent_dir_path(FilePath(h))>>
        /\ \A g, h \in DOMAIN heap :
               g # h =>
                   {s.id : s \in Range(heap[g].sessions)}
                       \cap {s.id : s \in Range(heap[h].sessions)} = {}

\* C17 witness: two files with tricks, an observer for each, both running
\* with their sessions
C17_Witness ==
    /\ args.cmd = "tricks"
    /\ pc = "tf_wait"
    /\ Len(heap) = 2
    /\ \A h \in DOMAIN heap :
           heap[h].state = "Running" /\ Len(heap[h].sessions) >= 1

\* C18: whenever tricks_from or observe_with has ended, by returning or by
\* an exception, stop() has been called on every handle on which start() had
\* returned.
C18_NoStartedHandleLeftRunning ==
    Terminated =>
        \A h \in DOMAIN heap : Returned("start", h) => Attempted("stop", h)

\* C19: in observe_with and in tricks_from, when stop() is called on a
\* handle its registration table is empty: every session scheduled on it has
\* been unscheduled.
C19_TableEmptyAtStop ==
    \A k \in CallsOf("stop") : calls[k].sessions = 0

\* C19 witness: stop() called on a handle on which two tricks had been
\* scheduled
C19_Witness ==
    \E k \in CallsOf("stop") :
        Cardinality({j \in CallsOf("schedule") : calls[j].h = calls[k].h}) = 2

\* the search path once the documents of the files 1..k have been loaded:
\* the `python-path` list of each, the latest document first, then what the
\* command line put there, then what was there when the command started
RECURSIVE SearchPathAfter(_)
SearchPathAfter(k) ==
    IF k = 0 THEN <<DefaultPythonPath>> \o InitialSysPath
    ELSE LET config == args.files[k].config
         IN  IF CONFIG_KEY_PYTHON_PATH \in config.keys
             THEN config.python_path \o SearchPathAfter(k - 1)
             ELSE SearchPathAfter(k - 1)

\* C13: for every configuration document that has a `python-path` list, when
\* a trick of that document is resolved the search path begins with exactly
\* that list's entries in their listed order, followed by every entry that
\* was on the search path before, in the same relative order; no entry is
\* ever removed from the search path.
C13_PythonPathPrepended ==
    /\ \A k \in 1..Len(loads) :
          /\ loads[k].path = SearchPathAfter(loads[k].h)
          /\ CONFIG_KEY_PYTHON_PATH \in args.files[loads[k].h].config.keys
                => IsPrefix(args.files[loads[k].h].config.python_path,
                            loads[k].path)
    /\ args.cmd = "tricks" /\ i >= 1
          => \E k \in 0..Len(args.files) : sys_path = SearchPathAfter(k)

\* C13 witness: a trick of the second document resolved, both documents having
\* a `python-path` list
C13_Witness ==
    \E k \in 1..Len(loads) :
        /\ loads[k].h = 2
        /\ \A f \in 1..2 : CONFIG_KEY_PYTHON_PATH \in args.files[f].config.keys

\* what tricks_from has put in front of the search path the command started
\* with
AddedToSysPath == SubSeq(sys_path, 1, Len(sys_path) - Len(InitialSysPath))

\* C16: path_split with its default separator splits a path specification on
\* the path-list separator, ':' on Unix: once tricks_from has split
\* --python-path, the directories it added to the search path are the pieces
\* of the value between the ':', also when they contain '/'.
C16_PathSplitOnPathListSeparator ==
    (args.cmd = "tricks" /\ i >= 1)
        => SplitsOn(args.python_path, AddedToSysPath, os_pathsep)

\* the positions of the warnings logged for `key` missing from trick `name`
WarningsOf(name, key) ==
    {k \in DOMAIN warnings : warnings[k] = [trick |-> name, key |-> key]}

\* the positions of the tricks of file k named `name` that lack `key`
Lacking(k, name, key) ==
    {j \in DOMAIN TricksOf(k) :
        TricksOf(k)[j].name = name /\ key \notin TricksOf(k)[j].keys}

\* C12: in schedule_tricks a trick whose specification lacks `args` and/or
\* `kwargs` is not an error: one warning is logged for each missing key (and
\* none for a key that is there), the handler is built with the empty
\* sequence for a missing `args` and the empty mapping for a missing
\* `kwargs`, and the trick is registered as a session.
C12_MissingKeysWarnOnly ==
    (args.cmd = "tricks" /\ Len(heap) >= 1 /\ Loadable(1)
     /\ \A t \in Range(TricksOf(1)) : ValidTrick(t))
        => /\ exc \notin {"ImportError", "TypeError"}
           /\ \A name \in TrickNames, key \in {"args", "kwargs"} :
                Cardinality(WarningsOf(name, key))
                    = Cardinality(Lacking(1, name, key))
           /\ Cardinality({k \in CallsOf("schedule") : calls[k].h = 1})
                = Len(TricksOf(1))
           /\ ~Returned("unschedule", 1)
                => /\ Len(heap[1].sessions) = Len(TricksOf(1))
                   /\ \A j \in DOMAIN TricksOf(1) :
                        LET handler == heap[1].sessions[j].handler
                            trick == TricksOf(1)[j]
                        IN  /\ handler.cls = trick.name
                            /\ "args" \notin trick.keys => handler.args = <<>>
                            /\ "args" \in trick.keys => handler.args # <<>>
                            /\ "kwargs" \notin trick.keys => handler.kwargs = {}
                            /\ "kwargs" \in trick.keys => handler.kwargs # {}

\* C12 witness: a trick with neither key and a trick without `args` have been
\* scheduled, three warnings have been logged and both are sessions
C12_Witness ==
    /\ args.cmd = "tricks" /\ Len(heap) >= 1 /\ Loadable(1)
    /\ \E j, k \in DOMAIN TricksOf(1) :
          /\ TricksOf(1)[j].keys = {}
          /\ TricksOf(1)[k].keys = {"kwargs"}
    /\ Len(warnings) = 3
    /\ Len(heap[1].sessions) = 2

\* the number of keys of the first n entries of a `tricks` list
RECURSIVE KeysUpTo(_, _)
KeysUpTo(tricks, n) ==
    IF n = 0 THEN 0 ELSE KeysUpTo(tricks, n - 1) + Len(tricks[n])

\* C20: schedule_tricks registers one session per (handler identifier, value)
\* pair of every entry of the tricks list: when all handlers resolve, the
\* sessions registered are as many as the keys of all entries together, an
\* entry with k keys giving k sessions, in order, and an empty one none.
C20_OneSessionPerKey ==
    (/\ args.cmd = "tricks" /\ Len(heap) >= 1 /\ Loadable(1)
     /\ \A e \in Range(args.files[1].config.tricks) :
           \A t \in Range(e) : ValidTrick(t)
     /\ ~Returned("unschedule", 1))
        => LET tricks == args.files[1].config.tricks
               sessions == heap[1].sessions
           IN  /\ Len(sessions) = KeysUpTo(tricks, Len(tricks))
               /\ \A n \in DOMAIN tricks :
                    \A j \in DOMAIN tricks[n] :
                        sessions[KeysUpTo(tricks, n - 1) + j].handler.cls
                            = tricks[n][j].name
               /\ \A j, k \in DOMAIN sessions :
                    j # k => sessions[j].id # sessions[k].id

\* C20 witness: an empty entry and an entry with two keys have been
\* scheduled, and two sessions are registered
C20_Witness ==
    /\ args.cmd = "tricks" /\ Len(heap) >= 1
    /\ \E n, p \in DOMAIN args.files[1].config.tricks :
          /\ Len(args.files[1].config.tricks[n]) = 0
          /\ Len(args.files[1].config.tricks[p]) = 2
    /\ Len(heap[1].sessions) = 2

=============================================================================
